---- MODULE Spec2Model ----
(***************************************************************************)
(* linux-healthcheck (src/linux_healthcheck/main.py): the counter store,   *)
(* the sampler and the run controller, as one state machine.               *)
(*                                                                         *)
(* One command runs at a time (the console scripts of src/setup.py):       *)
(*   linux-healthcheck              main()                                 *)
(*   linux-healthcheck-new-counter  new_counter()                          *)
(* The committed content of ~/.linux-healthcheck.db is master / counters / *)
(* samples; the inserts of the open connection that are not committed yet  *)
(* are pending.  Strings are sequences of one-character strings, so that   *)
(* the '%s' interpolation of ADD_COUNTER_SQL is modelled on the text.      *)
(***************************************************************************)
EXTENDS Integers, Sequences, FiniteSets, TLC

\* ---------------------------------------------------------------- bounds
\* At most MaxCommands commands are started.
MaxCommands == 3
\* current_timestamp (the wall clock, one-second resolution) reads 1..MaxClock.
MaxClock == 2
\* A counter file that parses holds an integer in 0..MaxValue.
MaxValue == 2
\* The sample histories of SpecAnyHistory hold at most MaxRows rows.
MaxRows == 3

\* ---------------------------------------------------------------- inputs
Q == "'"
\* --path arguments: plain, a doubled quote, a single quote.
PathArgs == {<<"a">>, <<Q, Q>>, <<Q>>}
\* --name arguments.
NameArgs == {<<"x">>, <<"y">>, <<Q>>}
\* What a counter file can hold when main() reads it.
FileContents ==
    {[kind |-> "missing", int |-> 0], [kind |-> "garbage", int |-> 0]}
        \cup {[kind |-> "integer", int |-> v] : v \in 0..MaxValue}
\* The plan SQLite picks for QUERY_COUNTER_SQL: a descending walk of the
\* counter_counts_access_time index, or a scan of the table in rowid order.
Plans == {"index", "scan"}
\* The umask of the process that creates the store file: 022 or 077.
Umasks == {{"gw", "ow"}, {"gr", "gw", "or", "ow"}}
\* How send_mail can end.
MailOutcomes == {"credentials", "smtp", "quit", "ok"}

Range(s) == {s[i] : i \in DOMAIN s}

\* ------------------------------------------------------- file permissions
\* stat.S_IRUSR | stat.S_IWUSR
OwnerRW == {"ur", "uw"}
\* The mode sqlite3.connect creates a database file with (0644), before umask.
SqliteCreateMode == {"ur", "uw", "gr", "or"}

\* ------------------------------------------------------------- SCHEMA_SQL
SchemaObjects ==
    <<"counters", "counters_path", "counter_counts", "counter_counts_access_time">>

\* Faulty variant: create statements without "if not exists".
PlainCreate == FALSE
\* Every statement of SCHEMA_SQL is "create ... if not exists".
SchemaIfNotExists == TRUE

\* One create statement against sqlite_master.
ExecCreate(m, name) ==
    IF name \in Range(m)
    THEN [err |-> ~SchemaIfNotExists, master |-> m]
    ELSE [err |-> FALSE, master |-> Append(m, name)]

RECURSIVE RunSchema(_, _)
RunSchema(m, i) ==
    IF i > Len(SchemaObjects) THEN [err |-> FALSE, master |-> m]
    ELSE LET r == ExecCreate(m, SchemaObjects[i])
         IN IF r.err THEN r ELSE RunSchema(r.master, i + 1)

\* create_schema: the statements of SCHEMA_SQL in order (the fifth piece of
\* the split is an empty statement, which sqlite3 executes as a no-op).
create_schema(m) == RunSchema(m, 1)

\* -------------------------------------------------------- ADD_COUNTER_SQL
\* ADD_COUNTER_SQL % (path, name): the statement text.
AddCounterSql(path, name) ==
    <<"insert or ignore into counters (path, name) values", "(", Q>>
        \o path \o <<Q, ",", " ", Q>> \o name \o <<Q, ")", ";">>

\* SQLite's string literal: from after the opening quote at i-1 to the closing
\* quote; '' inside the literal is one quote character.
RECURSIVE ScanLiteral(_, _, _)
ScanLiteral(text, i, acc) ==
    IF i > Len(text) THEN [err |-> TRUE, val |-> acc, next |-> i]
    ELSE IF text[i] = Q
         THEN IF i + 1 <= Len(text) /\ text[i + 1] = Q
              THEN ScanLiteral(text, i + 2, Append(acc, Q))
              ELSE [err |-> FALSE, val |-> acc, next |-> i + 1]
         ELSE ScanLiteral(text, i + 1, Append(acc, text[i]))

SyntaxError == [err |-> TRUE, path |-> <<>>, name |-> <<>>]

\* SQLite's parse of the statement text: values ( literal , literal ) ;
ParseInsert(text) ==
    LET l1 == ScanLiteral(text, 4, <<>>)
    IN IF l1.err \/ l1.next + 2 > Len(text) THEN SyntaxError
       ELSE IF ~(text[l1.next] = "," /\ text[l1.next + 1] = " " /\ text[l1.next + 2] = Q)
            THEN SyntaxError
            ELSE LET l2 == ScanLiteral(text, l1.next + 3, <<>>)
                 IN IF l2.err \/ l2.next + 1 # Len(text) THEN SyntaxError
                    ELSE IF text[l2.next] = ")" /\ text[l2.next + 1] = ";"
                         THEN [err |-> FALSE, path |-> l1.val, name |-> l2.val]
                         ELSE SyntaxError

\* insert or ignore, under the unique index counters_path; counter_id is the
\* rowid SQLite assigns (one more than the largest; rows are never deleted).
InsertOrIgnore(cs, path, name) ==
    IF \E i \in DOMAIN cs : cs[i].path = path THEN cs
    ELSE Append(cs, [counter_id |-> Len(cs) + 1, path |-> path, name |-> name])

\* add_counter: [err, counters]
add_counter(cs, path, name) ==
    LET p == ParseInsert(AddCounterSql(path, name))
    IN IF p.err THEN [err |-> TRUE, counters |-> cs]
       ELSE [err |-> FALSE, counters |-> InsertOrIgnore(cs, p.path, p.name)]

\* The paths a row can hold, and the counter ids there can be.
StoredPaths ==
    {ParseInsert(AddCounterSql(p, <<"x">>)).path :
        p \in {q \in PathArgs : ~ParseInsert(AddCounterSql(q, <<"x">>)).err}}
Ids == 1..Cardinality(StoredPaths)

\* ------------------------------------------------------ QUERY_COUNTER_SQL
\* Faulty variant: the query without its where clause.
MatchesAny(row, id) == TRUE
\* where counters_counter_id = ?
Matches(row, id) == row.counter_id = id

\* max(access_time): whether a row replaces the best row so far.  A table
\* scan keeps the first row of the largest access_time; the descending index
\* walk stops at the row of the largest access_time and largest rowid.
Later(t, best, plan) == IF plan = "index" THEN t >= best ELSE t > best

RECURSIVE MaxScan(_, _, _, _, _)
MaxScan(view, id, plan, i, best) ==
    IF i > Len(view) THEN best
    ELSE LET take == /\ Matches(view[i], id)
                     /\ \/ best = 0
                        \/ Later(view[i].access_time, view[best].access_time, plan)
         IN MaxScan(view, id, plan, i + 1, IF take THEN i ELSE best)

\* get_counter: the bare column count of the max(access_time) row, 0 when
\* the aggregate is over no row (result[1] is None).
get_counter(view, id, plan) ==
    LET best == MaxScan(view, id, plan, 1, 0)
    IN IF best = 0 THEN 0 ELSE view[best].count

\* ------------------------------------------------------------ the sampler
\* read_counter: open(path) fails on a missing file, int() on other text.
read_counter(content) ==
    IF content.kind = "missing" THEN [err |-> "ReadError", value |-> 0]
    ELSE IF content.kind = "garbage" THEN [err |-> "ParseError", value |-> 0]
    ELSE [err |-> "none", value |-> content.int]

\* ------------------------------------------------------------ main's loop
\* Faulty variant: >= for >.
IncreasedOrEqual(new, old) == new >= old
\* if new_value > old_value
Increased(new, old) == new > old

\* Faulty variant: the report counts the increase as one event.
DeltaIsOne(new, old) == 1
\* new_value - old_value
Delta(new, old) == new - old

\* Faulty variant: the two %d arguments in the wrong order.
UpdateSwapped(counter_id, count, time) ==
    [counter_id |-> count, count |-> counter_id, access_time |-> time]
\* update_counter: UPDATE_COUNTER_SQL % (counter_id, count), which SQLite reads
\* back as the same two integers; access_time defaults to current_timestamp.
update_counter(counter_id, count, time) ==
    [counter_id |-> counter_id, count |-> count, access_time |-> time]

\* Faulty variant: send_mail called whatever the report holds.
AlwaysMail(rep) == TRUE
\* if len(report) > 0
NeedsMail(rep) == Len(rep) > 0

\* Faulty variant: every insert committed as it is made.
KeepPending(smp, pend) == smp \o pend
\* A connection that is closed without commit loses its inserts.
Rollback(smp, pend) == smp

\* ------------------------------------------------------------------ state
VARIABLES
    fileExists, fileMode,       \* ~/.linux-healthcheck.db: present, its mode
    master, counters, samples,  \* the committed tables
    now,                        \* current_timestamp during the running main
    pc, cmd, args, it_exists,   \* the running command, its locals
    error,                      \* the exception that ended the command
    rows, idx,                  \* main: get_counters' result, loop position
    report, pending, sent,      \* main: report, uncommitted inserts, mails sent
    reportOf, seen, pre,        \* history: who each report line is for; each
                                \* processed counter's old and new value; the
                                \* tables when the command started
    cmds, mailed, highWater     \* history: commands started; per counter, the sum
                                \* of deltas delivered and the largest value
                                \* sampled in runs that committed

vars == <<fileExists, fileMode, master, counters, samples, now, pc, cmd, args,
          it_exists, error, rows, idx, report, pending, sent, reportOf, seen,
          pre, cmds, mailed, highWater>>

store == <<master, counters, samples>>
file == <<fileExists, fileMode>>
locals == <<rows, idx, report, pending, sent, reportOf, seen>>
history == <<mailed, highWater>>

NoArgs == [path |-> <<>>, name |-> <<>>]
Snapshot == [master |-> master, counters |-> counters, samples |-> samples]

Init ==
    /\ fileExists = FALSE /\ fileMode = {}
    /\ master = <<>> /\ counters = <<>> /\ samples = <<>>
    /\ now = 1
    /\ pc = "idle" /\ cmd = "none" /\ args = NoArgs /\ it_exists = FALSE
    /\ error = "none"
    /\ rows = <<>> /\ idx = 1
    /\ report = <<>> /\ pending = <<>> /\ sent = 0
    /\ reportOf = <<>> /\ seen = <<>>
    /\ pre = [master |-> <<>>, counters |-> <<>>, samples |-> <<>>]
    /\ cmds = 0
    /\ mailed = [c \in Ids |-> 0]
    /\ highWater = [c \in Ids |-> 0]

\* ---------------------------------------------------------------- actions
\* get_connection, lines 53-55: os.path.exists, then sqlite3.connect, which
\* creates a missing file with SqliteCreateMode less the umask.  When the file
\* was there, lines 56-58 change nothing and the command goes on with body.
Connect(body) ==
    /\ it_exists' = fileExists
    /\ IF fileExists
       THEN /\ UNCHANGED file
            /\ pc' = body
       ELSE /\ fileExists' = TRUE
            /\ \E umask \in Umasks : fileMode' = SqliteCreateMode \ umask
            /\ pc' = "chmod"

\* linux-healthcheck-new-counter --path p --name n: new_counter to line 190
NewCounter ==
    /\ pc = "idle" /\ cmds < MaxCommands
    /\ cmds' = cmds + 1
    /\ \E p \in PathArgs, n \in NameArgs : args' = [path |-> p, name |-> n]
    /\ cmd' = "new_counter"
    /\ pre' = Snapshot
    /\ Connect("register")
    /\ UNCHANGED <<store, now, error, locals, history>>

\* linux-healthcheck: main to line 197.  The wall clock reads any second when
\* the command runs: the same as at an earlier run, a later one, or an earlier
\* one (a clock that was set back); the whole run falls within that second.
Main ==
    /\ pc = "idle" /\ cmds < MaxCommands
    /\ cmd' = "main" /\ cmds' = cmds + 1
    /\ \E t \in 1..MaxClock : now' = t
    /\ pre' = Snapshot
    /\ Connect("query")
    /\ UNCHANGED <<store, args, error, locals, history>>

\* get_connection, lines 56-58: chmod when the file was not there.
Chmod ==
    /\ pc = "chmod"
    /\ ~it_exists
    /\ fileMode' = OwnerRW
    /\ pc' = IF cmd = "main" THEN "query" ELSE "register"
    /\ UNCHANGED <<fileExists, store, now, cmd, args, it_exists, error, locals,
                   pre, cmds, history>>

\* new_counter, lines 191-193: create_schema, add_counter, commit.  The create
\* statements are not part of a transaction: they stay when add_counter raises.
Register ==
    /\ pc = "register"
    /\ LET s == create_schema(master)
           a == add_counter(counters, args.path, args.name)
       IN /\ master' = s.master
          /\ counters' = IF s.err THEN counters ELSE a.counters
          /\ error' = IF s.err THEN "schema"
                      ELSE IF a.err THEN "OperationalError" ELSE "none"
          /\ pc' = IF s.err \/ a.err THEN "failed" ELSE "done"
    /\ UNCHANGED <<file, samples, now, cmd, args, it_exists, locals, pre, cmds,
                   history>>

\* The command after the loop over rs has reached position i.
AfterStep(rs, i, rep) ==
    IF i <= Len(rs) THEN "loop" ELSE IF NeedsMail(rep) THEN "mail" ELSE "commit"

\* An uncaught exception in main: the process ends, the connection is closed.
Fail(kind) ==
    /\ pc' = "failed" /\ error' = kind
    /\ samples' = Rollback(samples, pending)
    /\ pending' = <<>>

\* main, line 199: get_counters
GetCounters ==
    /\ pc = "query"
    /\ IF "counters" \in Range(master)
       THEN /\ rows' = counters /\ idx' = 1
            /\ pc' = AfterStep(counters, 1, report)
            /\ UNCHANGED <<error, samples, pending>>
       ELSE /\ Fail("get_counters")
            /\ UNCHANGED <<rows, idx>>
    /\ UNCHANGED <<file, master, counters, now, cmd, args, it_exists, report,
                   sent, reportOf, seen, pre, cmds, history>>

\* main, lines 199-204: one iteration of the loop
ProcessCounter ==
    /\ pc = "loop"
    /\ \E plan \in Plans, content \in FileContents :
        LET row == rows[idx]
            old_value == get_counter(samples \o pending, row.counter_id, plan)
            r == read_counter(content)
            new_value == r.value
        IN IF r.err # "none"
           THEN /\ Fail("read_counter")
                /\ UNCHANGED <<idx, report, reportOf, seen>>
           ELSE /\ seen' = Append(seen, [counter_id |-> row.counter_id,
                                         old |-> old_value, new |-> new_value])
                /\ idx' = idx + 1
                /\ IF Increased(new_value, old_value)
                   THEN /\ report' = Append(report,
                                        <<row.name, Delta(new_value, old_value)>>)
                        /\ reportOf' = Append(reportOf, row.counter_id)
                        /\ pending' = Append(pending,
                              update_counter(row.counter_id, new_value, now))
                   ELSE UNCHANGED <<report, reportOf, pending>>
                /\ pc' = AfterStep(rows, idx', report')
                /\ UNCHANGED <<error, samples>>
    /\ UNCHANGED <<file, master, counters, now, cmd, args, it_exists, rows, sent,
                   pre, cmds, history>>

\* The deltas of a delivered report, added per counter.
RECURSIVE AddDeltas(_, _, _, _)
AddDeltas(m, rep, of, i) ==
    IF i > Len(rep) THEN m
    ELSE AddDeltas([m EXCEPT ![of[i]] = @ + rep[i][2]], rep, of, i + 1)

\* main, line 206: send_mail(report)
SendMail ==
    /\ pc = "mail"
    /\ \E outcome \in MailOutcomes :
        /\ IF outcome \in {"quit", "ok"}
           THEN /\ sent' = sent + 1
                /\ mailed' = AddDeltas(mailed, report, reportOf, 1)
           ELSE UNCHANGED <<sent, mailed>>
        /\ IF outcome = "ok"
           THEN /\ pc' = "commit"
                /\ UNCHANGED <<error, samples, pending>>
           ELSE Fail("send_mail")
    /\ UNCHANGED <<file, master, counters, now, cmd, args, it_exists, rows, idx,
                   report, reportOf, seen, pre, cmds, highWater>>

\* The largest value sampled per counter, after a run that committed.
RECURSIVE Raise(_, _, _)
Raise(hw, sn, i) ==
    IF i > Len(sn) THEN hw
    ELSE Raise([hw EXCEPT ![sn[i].counter_id] =
                    IF sn[i].new > @ THEN sn[i].new ELSE @], sn, i + 1)

\* main, line 207: conn.commit()
Commit ==
    /\ pc = "commit"
    /\ \E ok \in BOOLEAN :
        IF ok
        THEN /\ samples' = samples \o pending
             /\ pending' = <<>>
             /\ pc' = "done"
             /\ highWater' = Raise(highWater, seen, 1)
             /\ UNCHANGED error
        ELSE /\ Fail("commit")
             /\ UNCHANGED highWater
    /\ UNCHANGED <<file, master, counters, now, cmd, args, it_exists, rows, idx,
                   report, sent, reportOf, seen, pre, cmds, mailed>>

\* The process ends.
Exit ==
    /\ pc \in {"done", "failed"}
    /\ pc' = "idle" /\ cmd' = "none" /\ args' = NoArgs /\ it_exists' = FALSE
    /\ error' = "none"
    /\ rows' = <<>> /\ idx' = 1
    /\ report' = <<>> /\ pending' = <<>> /\ sent' = 0
    /\ reportOf' = <<>> /\ seen' = <<>> /\ now' = 1
    /\ pre' = [master |-> <<>>, counters |-> <<>>, samples |-> <<>>]
    /\ UNCHANGED <<file, store, cmds, history>>

Next ==
    \/ NewCounter
    \/ Main
    \/ Chmod
    \/ Register
    \/ GetCounters
    \/ ProcessCounter
    \/ SendMail
    \/ Commit
    \/ Exit

Spec == Init /\ [][Next]_vars

\* ------------------------------------------------- any sample history
\* update_counter called with any counter id, count and timestamp: the
\* connection then holds every sample history of up to MaxRows rows, also
\* those main never writes, for get_counter to read.
InsertAny ==
    /\ Len(pending) < MaxRows
    /\ \E id \in Ids, count \in 0..MaxValue, t \in 1..MaxClock :
          pending' = Append(pending, update_counter(id, count, t))
    /\ UNCHANGED <<file, store, now, pc, cmd, args, it_exists, error, rows, idx,
                   report, sent, reportOf, seen, pre, cmds, history>>

NextAnyHistory == InsertAny

SpecAnyHistory == Init /\ [][NextAnyHistory]_vars

\* ----------------------------------------------------------- properties
CounterIds == {counters[i].counter_id : i \in DOMAIN counters}
NameOf(c) == counters[CHOOSE i \in DOMAIN counters : counters[i].counter_id = c].name
SamplesOf(s, c) == {i \in DOMAIN s : s[i].counter_id = c}
ReportLinesOf(c) == {i \in DOMAIN reportOf : reportOf[i] = c}
\* The samples the run has written: committed by now, or still pending.
NewSamples ==
    IF pc = "done" THEN SubSeq(samples, Len(pre.samples) + 1, Len(samples))
    ELSE pending

\* C1: in a run, each counter is processed once, and for a counter whose
\* sampled value is greater than the baseline get_counter returned, the report
\* holds exactly one line for it, (name, current - baseline), and, unless the
\* run has failed, exactly one new sample is written for it, with count =
\* current.
C1_IncreaseRecordedAndReported ==
    cmd = "main" =>
        /\ \A k, l \in DOMAIN seen :
              seen[k].counter_id = seen[l].counter_id => k = l
        /\ \A k \in DOMAIN seen :
              LET c == seen[k].counter_id
              IN seen[k].new > seen[k].old =>
                   /\ Cardinality(ReportLinesOf(c)) = 1
                   /\ \A i \in ReportLinesOf(c) :
                         report[i] = <<NameOf(c), seen[k].new - seen[k].old>>
                   /\ pc # "failed" =>
                         /\ Cardinality(SamplesOf(NewSamples, c)) = 1
                         /\ \A i \in SamplesOf(NewSamples, c) :
                               NewSamples[i].count = seen[k].new

\* A run committed in which a counter rose from a baseline above zero.
C1_Witness ==
    /\ cmd = "main" /\ pc = "done"
    /\ \E k \in DOMAIN seen : seen[k].old > 0 /\ seen[k].new > seen[k].old

\* C2: in a run, for a counter whose sampled value is at most the baseline,
\* no sample is written, the report has no line for it, and get_counter
\* returns for it what it returned before the run.
C2_NoIncreaseNothingRecorded ==
    cmd = "main" =>
        \A k \in DOMAIN seen :
            LET c == seen[k].counter_id
            IN seen[k].new <= seen[k].old =>
                 /\ SamplesOf(NewSamples, c) = {}
                 /\ ReportLinesOf(c) = {}
                 /\ \A plan \in Plans :
                       get_counter(samples \o pending, c, plan)
                           = get_counter(pre.samples, c, plan)

\* A run committed in which a counter had dropped below its baseline.
C2_Witness ==
    /\ cmd = "main" /\ pc = "done"
    /\ \E k \in DOMAIN seen : seen[k].new < seen[k].old

\* C3: a run that fails (get_counters, read_counter, send_mail or commit
\* raising) leaves the committed tables as they were when it started, and
\* none of its inserts pending.
C3_AllOrNothing ==
    (cmd = "main" /\ pc = "failed") =>
        /\ samples = pre.samples
        /\ counters = pre.counters
        /\ master = pre.master
        /\ pending = <<>>

\* A run failed reading one counter after it had written a sample for another.
C3_Witness ==
    /\ cmd = "main" /\ pc = "failed" /\ error = "read_counter"
    /\ report # <<>>

\* C4: for every counter id and either plan, get_counter returns 0 when the
\* counter has no sample, and otherwise the count of a sample of that counter
\* whose access_time no other sample of the counter exceeds; the samples of
\* other counters do not change the result.
C4_LatestValue ==
    \A c \in Ids \cup {Cardinality(StoredPaths) + 1}, plan \in Plans :
        LET view == samples \o pending
            v == get_counter(view, c, plan)
            mine == SamplesOf(view, c)
            own == SelectSeq(view, LAMBDA r : r.counter_id = c)
        IN /\ mine = {} => v = 0
           /\ mine # {} =>
                 \E i \in mine :
                    /\ view[i].count = v
                    /\ \A j \in mine : view[j].access_time <= view[i].access_time
           /\ v = get_counter(own, c, plan)

\* A counter whose latest sample by access_time is not the one inserted last,
\* with a sample of another counter, no older, inserted after both;
\* get_counter returns
\* the count of the former under both plans.
C4_Witness ==
    LET view == samples \o pending
    IN \E c \in Ids : \E i, j \in SamplesOf(view, c) : \E k \in DOMAIN view :
        /\ i < j
        /\ view[i].access_time > view[j].access_time
        /\ view[i].count # view[j].count
        /\ view[k].counter_id # c
        /\ k > j
        /\ view[k].access_time >= view[i].access_time
        /\ view[k].count # view[i].count
        /\ \A plan \in Plans : get_counter(view, c, plan) = view[i].count

\* C5: in a run, at most one report is delivered; it is delivered only when
\* the report is not empty and every registered counter has been processed;
\* send_mail is reached only with a report that is not empty; a run that
\* reaches its commit has delivered a report exactly when the report is not
\* empty; and nothing of the run is committed before the delivery.
C5_DeliveryOncePerRun ==
    cmd = "main" =>
        /\ sent <= 1
        /\ sent = 1 => /\ report # <<>>
                       /\ Len(seen) = Len(counters)
                       /\ idx > Len(rows)
        /\ pc = "mail" => /\ sent = 0 /\ report # <<>>
                          /\ Len(seen) = Len(counters)
        /\ pc \in {"commit", "done"} => (sent = 1 <=> report # <<>>)
        /\ pc \in {"mail", "commit"} => samples = pre.samples

\* A run over two counters, one of which rose, delivered its report and
\* committed.
C5_Witness ==
    /\ cmd = "main" /\ pc = "done" /\ sent = 1
    /\ Len(seen) = 2 /\ Len(report) = 1

\* C6: whenever the store file exists, its permissions are within owner
\* read/write.
C6_PermissionsAtomicWithFile == fileExists => fileMode \subseteq OwnerRW

\* C7: between commands, get_counter returns for every counter the largest
\* value sampled for it in the runs that committed, or 0.
C7_BaselineIsHighWaterMark ==
    pc = "idle" =>
        \A c \in CounterIds, plan \in Plans :
            get_counter(samples, c, plan) = highWater[c]

\* C8: no two rows of counters have the same path, and new_counter with a
\* path that a row already holds raises nothing and leaves the counters and
\* the samples as they were.
C8_RegisterIdempotent ==
    /\ \A i, j \in DOMAIN counters : counters[i].path = counters[j].path => i = j
    /\ (/\ cmd = "new_counter" /\ pc \in {"done", "failed"}
        /\ \E i \in DOMAIN pre.counters : pre.counters[i].path = args.path)
          => /\ error = "none"
             /\ counters = pre.counters
             /\ samples = pre.samples

\* C9: create_schema raises nothing on whatever the store holds, leaves each
\* object of SCHEMA_SQL there exactly once, and a second call changes nothing;
\* after new_counter has run it the rows that were in counters and samples
\* are still there, and a schema that was there is unchanged.
C9_SchemaIdempotent ==
    /\ LET r == create_schema(master)
       IN /\ ~r.err
          /\ Range(r.master) = Range(SchemaObjects)
          /\ Len(r.master) = Len(SchemaObjects)
          /\ create_schema(r.master) = r
    /\ (cmd = "new_counter" /\ pc \in {"done", "failed"}) =>
          /\ error # "schema"
          /\ master = create_schema(pre.master).master
          /\ Len(master) = Cardinality(Range(master))
          /\ pre.master # <<>> => master = pre.master
          /\ samples = pre.samples
          /\ SubSeq(counters, 1, Len(pre.counters)) = pre.counters

\* new_counter ran create_schema on a store that held the schema, a counter
\* and a sample.
C9_Witness ==
    /\ cmd = "new_counter" /\ pc = "done"
    /\ pre.master # <<>> /\ pre.counters # <<>> /\ pre.samples # <<>>

\* C10 as claimed: between commands, the deltas delivered for a counter add up
\* to the value get_counter returns for it.
C10_DeliveredEqualsCommitted ==
    pc = "idle" =>
        \A c \in CounterIds, plan \in Plans :
            mailed[c] = get_counter(samples, c, plan)

\* C10, amended: the deltas delivered for a counter add up to at least the
\* value get_counter returns for it from the committed samples: no increase
\* is lost, one can be reported more than once.
C10_NoIncreaseLost ==
    \A c \in Ids, plan \in Plans :
        mailed[c] >= get_counter(samples, c, plan)

\* A run committed after an earlier one had delivered the same increase and
\* failed to commit.
C10_Witness ==
    /\ cmd = "main" /\ pc = "done"
    /\ \E c \in CounterIds :
          /\ get_counter(samples, c, "index") > 0
          /\ mailed[c] > get_counter(samples, c, "index")

====
